---- MODULE Spec2Model ----
(***************************************************************************)
(* Model of metiger_bot.py: the in-memory TTL cache in front of the one    *)
(* upstream markets call, and the command / button dispatcher that renders *)
(* the cached dataset as views.                                            *)
(*                                                                         *)
(* Optional Python values (None or a value) are sequences of length <= 1:  *)
(* <<>> is None, <<v>> is the value v.  A text is a record of a title (a   *)
(* sequence of words) and the rows listed under it.  A keyboard is the     *)
(* sequence of its buttons' callback identifiers.                          *)
(***************************************************************************)
EXTENDS Integers, Sequences, FiniteSets, TLC

VARIABLES
    cache,       \* the module-level dict cache: key -> payload
    cache_time,  \* the module-level dict cache_time: key -> time.time() of set_cache
    now,         \* time.time()
    fetched,     \* history: the body and time of the latest 2xx, parsed upstream response
    last         \* history: what the latest handler invocation received and did

vars == <<cache, cache_time, now, fetched, last>>

(***************************************************************************)
(* Bounds of the model.                                                    *)
(***************************************************************************)
MaxRows == 2     \* longest upstream dataset
MaxTicks == 2    \* the clock stops after this many ticks

TTL == 60        \* get_cached(key, ttl=60)
Tick == TTL \div 2
MaxTime == MaxTicks * Tick

None == <<>>
Some(v) == <<v>>

(***************************************************************************)
(* Upstream data.                                                          *)
(***************************************************************************)
Quote(symbol, mc, ch) ==
    [symbol |-> symbol, market_cap |-> mc, price_change_percentage_24h |-> ch]

Btc == Quote("btc", Some(1), Some(-5))
Eth == Quote("eth", Some(2), Some(0))

\* The bodies the upstream serves in Spec: no rows, one row, and two rows
\* that in upstream order are sorted neither by market cap nor by 24h change.
Payloads == { <<>>, <<Eth>>, <<Btc, Eth>> }

\* The datasets of SpecViews: every list of 1..MaxRows quotes whose market
\* cap and 24h change are each absent, zero or another value.
ViewQuotes ==
    { Quote("coin", mc, ch) :
        mc \in {None, Some(0), Some(1), Some(2)},
        ch \in {None, Some(-5), Some(0), Some(3)} }

ViewDatasets == UNION { [1..n -> ViewQuotes] : n \in 1..MaxRows }

NoResp == [kind |-> "none", status |-> 0, body |-> None]

\* What requests.get / raise_for_status / r.json() can meet: a timeout, a
\* connection error, an HTTP error status, a 2xx body that is no JSON, a 2xx
\* body that is a list of quotes.
Responses ==
    { [kind |-> "timeout", status |-> 0, body |-> None],
      [kind |-> "conn", status |-> 0, body |-> None] }
    \cup { [kind |-> "http", status |-> s, body |-> None] : s \in {429, 500, 200} }
    \cup { [kind |-> "http", status |-> 200, body |-> Some(p)] : p \in Payloads }

IsHttpError(resp) == resp.kind = "http" /\ resp.status >= 400
IsUnparsable(resp) == resp.kind = "http" /\ resp.status < 400 /\ resp.body = None
IsSuccess(resp) == resp.kind = "http" /\ resp.status < 400 /\ resp.body # None
IsFailure(resp) == resp.kind # "none" /\ ~IsSuccess(resp)

(***************************************************************************)
(* Caching (lines 30-43).                                                  *)
(***************************************************************************)
NoEntries == [k \in {} |-> None]

\* dict.get(key, default)
DictGet(d, key, default) == IF key \in DOMAIN d THEN d[key] ELSE default

\* d[key] = value
DictPut(d, key, value) == [k \in DOMAIN d \cup {key} |-> IF k = key THEN value ELSE d[k]]

get_cached_inclusive(key, ttl) ==
    IF key \in DOMAIN cache /\ now - DictGet(cache_time, key, 0) <= ttl
    THEN Some(cache[key])
    ELSE None

get_cached(key, ttl) ==
    IF key \in DOMAIN cache /\ now - DictGet(cache_time, key, 0) < ttl
    THEN Some(cache[key])
    ELSE None

\* Python truthiness of get_cached's result: None and the empty list are falsy.
Truthy(opt) == opt # None /\ Len(opt[1]) > 0

\* The two dicts after set_cache(key, value).
set_cache(key, value) ==
    [cache |-> DictPut(cache, key, value),
     cache_time |-> DictPut(cache_time, key, now)]

(***************************************************************************)
(* fetch_markets (lines 57-87).                                            *)
(***************************************************************************)
TimeoutMsg == <<"API", "timeout", "-", "try", "again", "in", "a", "moment">>
RateLimitedMsg == <<"Rate", "limited", "-", "wait", "a", "minute">>
ApiErrorMsg == <<"API", "error">>
\* str() of the library exceptions that line 87 re-raises unchanged.
ConnectionErrorMsg == <<"Connection", "aborted">>
JSONDecodeErrorMsg == <<"Expecting", "value">>

\* fetch_markets returning `rows` / raising Exception(err), with the upstream
\* calls it made and the dicts it leaves.
Returned(rows, calls, dicts) ==
    [raised |-> FALSE, err |-> <<>>, rows |-> rows, calls |-> calls,
     cache |-> dicts.cache, cache_time |-> dicts.cache_time]

Raised(err, calls, dicts) ==
    [raised |-> TRUE, err |-> err, rows |-> <<>>, calls |-> calls,
     cache |-> dicts.cache, cache_time |-> dicts.cache_time]

Dicts == [cache |-> cache, cache_time |-> cache_time]

\* lines 59-60: `if cached:`
cache_hit == Truthy(get_cached("markets", TTL))

fetch_markets_caches_failure(resp) ==
    LET cached == get_cached("markets", TTL) IN
    IF cache_hit THEN Returned(cached[1], 0, Dicts)
    ELSE IF IsSuccess(resp) THEN Returned(resp.body[1], 1, set_cache("markets", resp.body[1]))
    ELSE Raised(ApiErrorMsg, 1, set_cache("markets", <<>>))

fetch_markets(resp) ==
    LET cached == get_cached("markets", TTL) IN
    IF cache_hit THEN Returned(cached[1], 0, Dicts)
    ELSE CASE resp.kind = "timeout" -> Raised(TimeoutMsg, 1, Dicts)
           [] IsHttpError(resp) ->
                IF resp.status = 429
                THEN Raised(RateLimitedMsg, 1, Dicts)
                ELSE Raised(ApiErrorMsg, 1, Dicts)
           [] resp.kind = "conn" -> Raised(ConnectionErrorMsg, 1, Dicts)
           [] IsUnparsable(resp) -> Raised(JSONDecodeErrorMsg, 1, Dicts)
           [] OTHER -> Returned(resp.body[1], 1, set_cache("markets", resp.body[1]))

(***************************************************************************)
(* Views (lines 150-196) and keyboards (lines 100-115).                    *)
(***************************************************************************)
\* Python's `x or d` on an optional number: None and 0 are falsy.
PyOr(opt, d) == IF opt = None THEN d ELSE IF opt[1] = 0 THEN d ELSE opt[1]

McKey(x) == PyOr(x.market_cap, 0)
GainsKey(x) == PyOr(x.price_change_percentage_24h, -999)

\* sorted(rows, key=..., reverse=True) given each row's key: descending by
\* key, rows with equal keys in their original order.
SortedDescending(rows, keys) ==
    LET n == Len(rows)
        Rank(i) == Cardinality({j \in 1..n : keys[j] > keys[i] \/ (keys[j] = keys[i] /\ j < i)}) + 1
    IN  [p \in 1..n |-> rows[CHOOSE i \in 1..n : Rank(i) = p]]

SortedAscending(rows, keys) ==
    LET n == Len(rows)
        Rank(i) == Cardinality({j \in 1..n : keys[j] < keys[i] \/ (keys[j] = keys[i] /\ j < i)}) + 1
    IN  [p \in 1..n |-> rows[CHOOSE i \in 1..n : Rank(i) = p]]

mc_rows_ascending(rows) == SortedAscending(rows, [i \in 1..Len(rows) |-> McKey(rows[i])])

\* line 160
mc_rows(rows) == SortedDescending(rows, [i \in 1..Len(rows) |-> McKey(rows[i])])

\* line 170
gains_rows(rows) == SortedDescending(rows, [i \in 1..Len(rows) |-> GainsKey(rows[i])])

main_kb == <<"price", "refresh", "mc", "gains", "charts", "helpbtn">>
charts_kb == <<"url", "url", "back">>
NoKb == <<>>

Text(title, rows) == [title |-> title, rows |-> rows]
Glyph == "warning-glyph"

PriceTitle == <<"Live", "Prices", "(USD)">>
McTitle == <<"Market", "Caps">>
GainsTitle == <<"24h", "Top", "Movers">>
ChartsTitle == <<"Choose", "a", "chart:">>
BackTitle == <<"Crypto", "Price", "Bot:">>
HelpBtnTitle == <<"Crypto", "Price", "Bot", "Features:">>
StartTitle == <<"Crypto", "Price", "Bot", "Live", "prices", "from", "CoinGecko">>
HelpTitle == <<"Crypto", "Price", "Bot", "Buttons:", "Type", "/start", "to", "show", "buttons", "again.">>

View(text, kb) == [text |-> text, kb |-> kb]

unknown_view_charts_kb(data) == View(Text(<<"Unknown", "command:">> \o data, <<>>), charts_kb)

\* line 196
unknown_view(data) == View(Text(<<"Unknown", "command:">> \o data, <<>>), main_kb)

\* (q.data or "").strip(): an identifier is a sequence of characters, of
\* which " " is whitespace; None is the empty identifier.
RECURSIVE lstrip(_)
lstrip(s) == IF s # <<>> /\ Head(s) = " " THEN lstrip(Tail(s)) ELSE s

RECURSIVE rstrip(_)
rstrip(s) == IF s # <<>> /\ s[Len(s)] = " " THEN rstrip(SubSeq(s, 1, Len(s) - 1)) ELSE s

strip(q_data) == rstrip(lstrip(IF q_data = None THEN <<>> ELSE q_data[1]))

IsDataView(data) == data \in {<<"price">>, <<"refresh">>, <<"mc">>, <<"gains">>}

\* A data view: the rows it lists, in order, and the contents it leaves in the
\* list object it was given.  That object is the cached one: fetch_markets
\* returns cache["markets"] itself (line 62) or the list it has just stored
\* (lines 73-75).  sorted() builds a new list and leaves its argument alone.
Rendered(title, shown, object) == [text |-> Text(title, shown), object |-> object]

price_view(rows) == Rendered(PriceTitle, rows, rows)

mc_view_in_place(rows) == Rendered(McTitle, mc_rows(rows), mc_rows(rows))

mc_view(rows) == Rendered(McTitle, mc_rows(rows), rows)

gains_view(rows) == Rendered(GainsTitle, gains_rows(rows), rows)

data_view(data, rows) ==
    CASE data \in {<<"price">>, <<"refresh">>} -> price_view(rows)
      [] data = <<"mc">> -> mc_view(rows)
      [] data = <<"gains">> -> gains_view(rows)

\* The branches of lines 177-196, which fetch nothing.
static_view(data) ==
    CASE data = <<"charts">> -> View(Text(ChartsTitle, <<>>), charts_kb)
      [] data = <<"back">> -> View(Text(BackTitle, <<>>), main_kb)
      [] data = <<"helpbtn">> -> View(Text(HelpBtnTitle, <<>>), main_kb)
      [] OTHER -> unknown_view(data)

(***************************************************************************)
(* The chat transport.  A handler's calls to it are recorded in order;     *)
(* each may raise.  str() of a transport exception:                        *)
(***************************************************************************)
TransportErrorMsg == <<"Bad", "Request">>

Call(op, text, kb, ok) == [op |-> op, text |-> text, kb |-> kb, ok |-> ok]

\* The transport during one handler invocation: whether q.answer() at line
\* 146 returns, and how many of the calls after it raise before one returns.
Transports ==
    { [ack |-> FALSE, fails |-> 0] } \cup { [ack |-> TRUE, fails |-> n] : n \in 0..3 }

\* The i-th transport call after the acknowledgement returns.
Delivers(t, i) == i > t.fails

\* The except clause of lines 198-204 handling Exception(err), after `sent`.
error_path(sent, err, t, i) ==
    LET error_msg == Text(<<Glyph>> \o err, <<>>)
        notice == Call("edit_message_text", error_msg, main_kb, Delivers(t, i))
        alert == Call("answer_alert", error_msg, NoKb, Delivers(t, i + 1))
    IN  IF notice.ok
        THEN [sent |-> sent \o <<notice>>, raised |-> FALSE]
        ELSE [sent |-> sent \o <<notice, alert>>, raised |-> ~alert.ok]

\* Lines 150-204 for a view that was built: the edit, and the except clause
\* if the edit raises.
show(sent, view, t) ==
    LET edit == Call("edit_message_text", view.text, view.kb, Delivers(t, 1))
    IN  IF edit.ok
        THEN [sent |-> sent \o <<edit>>, raised |-> FALSE]
        ELSE error_path(sent \o <<edit>>, TransportErrorMsg, t, 2)

(***************************************************************************)
(* Handlers.                                                               *)
(***************************************************************************)
NoText == Text(<<>>, <<>>)

\* The record of a handler invocation.  at: when the event arrived; age: the time since the latest
\* successful upstream fetch, and entryAge: the age of the "markets" entry,
\* both as the event arrived (None: there is none).
Event(kind, raw, data, acked, calls, resp, sent, raised) ==
    [kind |-> kind, raw |-> raw, data |-> data, acked |-> acked, at |-> now,
     age |-> IF fetched.present THEN Some(now - fetched.at) ELSE None,
     entryAge |-> IF "markets" \in DOMAIN cache_time THEN Some(now - cache_time["markets"]) ELSE None,
     calls |-> calls, resp |-> resp, sent |-> sent, raised |-> raised]

\* on_button (lines 142-204) for callback data q_data, with the upstream
\* answering resp if asked and the transport behaving as t.  The handler runs
\* at one reading of the clock: events are handled one at a time (the cache
\* has no lock) and time passes between them.
on_button(q_data, resp, t) ==
    LET data == strip(q_data)
        ack == Call("answer", NoText, NoKb, t.ack)
    IN  IF ~t.ack
        THEN /\ last' = Event("button", q_data, data, FALSE, 0, NoResp, <<ack>>, TRUE)
             /\ UNCHANGED <<cache, cache_time, now, fetched>>
        ELSE IF IsDataView(data)
        THEN LET f == fetch_markets(resp)
                 v == data_view(data, f.rows)
                 out == IF f.raised
                        THEN error_path(<<ack>>, f.err, t, 1)
                        ELSE show(<<ack>>, View(v.text, main_kb), t)
             IN  /\ cache' = IF f.raised THEN f.cache ELSE DictPut(f.cache, "markets", v.object)
                 /\ cache_time' = f.cache_time
                 /\ fetched' = IF f.calls > 0 /\ IsSuccess(resp)
                               THEN [present |-> TRUE, payload |-> resp.body[1], at |-> now]
                               ELSE fetched
                 /\ last' = Event("button", q_data, data, TRUE, f.calls,
                                  IF f.calls > 0 THEN resp ELSE NoResp, out.sent, out.raised)
                 /\ UNCHANGED now
        ELSE LET out == show(<<ack>>, static_view(data), t)
             IN  /\ last' = Event("button", q_data, data, TRUE, 0, NoResp, out.sent, out.raised)
                 /\ UNCHANGED <<cache, cache_time, now, fetched>>

start_reply_no_kb == View(Text(StartTitle, <<>>), NoKb)

\* start (lines 118-124)
start_reply == View(Text(StartTitle, <<>>), main_kb)

\* help_cmd (lines 126-139): reply_text without reply_markup
help_reply == View(Text(HelpTitle, <<>>), NoKb)

\* The wiring of lines 211-214: /start goes to start, /help and every other
\* command to help_cmd.
Route(name) == IF name = "start" THEN start_reply ELSE help_reply

on_command(name, ok) ==
    LET reply == Route(name)
    IN  /\ last' = Event("command", Some(<<name>>), <<name>>, FALSE, 0, NoResp,
                         <<Call("reply_text", reply.text, reply.kb, ok)>>, ~ok)
        /\ UNCHANGED <<cache, cache_time, now, fetched>>

(***************************************************************************)
(* The environment: users, the upstream and the clock.                     *)
(***************************************************************************)
ButtonData ==
    { None, Some(<<" ", "xyz", " ">>),
      Some(<<"price">>), Some(<<"refresh">>), Some(<<"mc">>), Some(<<"gains">>),
      Some(<<"charts">>), Some(<<"back">>), Some(<<"helpbtn">>) }

Commands == {"start", "help", "price"}

\* The upstream answers only a request that is made.
Asked(q_data, t) == t.ack /\ IsDataView(strip(q_data)) /\ ~cache_hit

Button ==
    \E q_data \in ButtonData, t \in Transports :
        \E resp \in IF Asked(q_data, t) THEN Responses ELSE {NoResp} :
            on_button(q_data, resp, t)

Command == \E name \in Commands, ok \in BOOLEAN : on_command(name, ok)

TimePasses ==
    /\ now + Tick <= MaxTime
    /\ now' = now + Tick
    /\ UNCHANGED <<cache, cache_time, fetched, last>>

Init ==
    /\ cache = NoEntries
    /\ cache_time = NoEntries
    /\ now = 0
    /\ fetched = [present |-> FALSE, payload |-> <<>>, at |-> 0]
    /\ last = [kind |-> "none", raw |-> None, data |-> <<>>, acked |-> FALSE, at |-> 0,
               age |-> None, entryAge |-> None, calls |-> 0, resp |-> NoResp,
               sent |-> <<>>, raised |-> FALSE]

Next == Button \/ Command \/ TimePasses

Spec == Init /\ [][Next]_vars

(***************************************************************************)
(* SpecViews: the views over every dataset.  It starts where a button      *)
(* press has just fetched the dataset, and the buttons are pressed while   *)
(* the entry is fresh and the transport delivers.                          *)
(***************************************************************************)
Delivering == [ack |-> TRUE, fails |-> 0]

InitViews ==
    \E d \in ViewDatasets :
        /\ cache = [k \in {"markets"} |-> d]
        /\ cache_time = [k \in {"markets"} |-> 0]
        /\ now = 0
        /\ fetched = [present |-> TRUE, payload |-> d, at |-> 0]
        /\ last = [kind |-> "button", raw |-> Some(<<"price">>), data |-> <<"price">>,
                   acked |-> TRUE, at |-> 0, age |-> None, entryAge |-> None, calls |-> 1,
                   resp |-> [kind |-> "http", status |-> 200, body |-> Some(d)],
                   sent |-> <<Call("answer", NoText, NoKb, TRUE),
                              Call("edit_message_text", Text(PriceTitle, d), main_kb, TRUE)>>,
                   raised |-> FALSE]

PressPrice == on_button(Some(<<"price">>), NoResp, Delivering)
PressMc == on_button(Some(<<"mc">>), NoResp, Delivering)
PressGains == on_button(Some(<<"gains">>), NoResp, Delivering)

NextViews == PressPrice \/ PressMc \/ PressGains

SpecViews == InitViews /\ [][NextViews]_vars


(***************************************************************************)
(* Properties.                                                             *)
(***************************************************************************)
\* The latest event is a button press that reached the dispatch of lines
\* 150-196, that is, q.answer() at line 146 returned.
Dispatched == last.kind = "button" /\ last.acked

\* ... for one of the four data views.
DataRequest == Dispatched /\ IsDataView(last.data)

\* The rows listed by the first message the latest event tried to show.
Shown == last.sent[2].text.rows

\* C1: a data-view request that arrives less than TTL after a successful
\* upstream fetch issues no upstream call, whatever payload that fetch
\* returned.
C1_CacheHit ==
    (DataRequest /\ last.age # None /\ last.age[1] < TTL) => last.calls = 0

\* C2: an entry is valid only while its age is below TTL: a data-view request
\* is served without an upstream call only from an entry younger than TTL;
\* one that finds no entry, or an entry of age >= TTL, issues exactly one
\* upstream call, and if that call succeeds the entry holds the new payload
\* and the time of the request.
C2_TtlExpiry ==
    /\ (DataRequest /\ last.calls = 0) =>
           (last.entryAge # None /\ last.entryAge[1] < TTL)
    /\ (DataRequest /\ (last.entryAge = None \/ last.entryAge[1] >= TTL)) =>
           last.calls = 1
    /\ (DataRequest /\ last.calls = 1 /\ IsSuccess(last.resp)) =>
           /\ "markets" \in DOMAIN cache /\ "markets" \in DOMAIN cache_time
           /\ cache["markets"] = last.resp.body[1]
           /\ cache_time["markets"] = last.at

C2_Witness ==
    /\ DataRequest /\ last.entryAge # None /\ last.entryAge[1] >= TTL
    /\ last.calls = 1 /\ IsSuccess(last.resp)
    /\ cache["markets"] = last.resp.body[1] /\ cache["markets"] # <<>>
    /\ cache_time["markets"] = last.at /\ last.at > 0

\* C3: a request whose upstream call fails (timeout, connection error, HTTP
\* error status, unparsable body) made exactly one upstream call and leaves
\* the cache payload and timestamp as they were; and the data-view request
\* that follows a failed one issues an upstream call unless it finds an
\* entry younger than TTL.
C3_FailuresNotCached ==
    [][ /\ (now' = now /\ last'.kind = "button" /\ last'.calls > 0 /\ IsFailure(last'.resp)) =>
              (last'.calls = 1 /\ cache' = cache /\ cache_time' = cache_time)
        /\ (/\ last.kind = "button" /\ IsFailure(last.resp)
            /\ now' = now /\ last'.kind = "button" /\ last'.acked /\ IsDataView(last'.data)
            /\ ~("markets" \in DOMAIN cache_time /\ now - cache_time["markets"] < TTL)) =>
              last'.calls = 1
      ]_vars

C3_Witness ==
    /\ DataRequest /\ last.calls = 1 /\ IsFailure(last.resp)
    /\ "markets" \in DOMAIN cache /\ cache["markets"] # <<>>
    /\ last.entryAge # None /\ last.entryAge[1] >= TTL

\* C4: a failed upstream call is shown as a notice that contains "timeout"
\* for a timeout, as the rate-limited notice for HTTP 429, and as the generic
\* "API error" notice for every other HTTP error and for an unparsable body.
Contains(words, w) == \E i \in 1..Len(words) : words[i] = w

C4_Classification ==
    (DataRequest /\ last.calls = 1 /\ IsFailure(last.resp) /\ last.resp.kind # "conn") =>
        LET notice == last.sent[2].text.title IN
        CASE last.resp.kind = "timeout" ->
                 Contains(notice, "timeout") /\ notice \notin {<<Glyph>> \o RateLimitedMsg, <<Glyph>> \o ApiErrorMsg}
          [] last.resp.status = 429 -> notice = <<Glyph>> \o RateLimitedMsg
          [] OTHER -> notice = <<Glyph>> \o ApiErrorMsg

\* C5: no exception propagates out of on_button, whichever of its steps
\* fail.
C5_NoCrash == last.kind = "button" => ~last.raised

\* C6: the rows of the gains view are in non-increasing order of 24h change,
\* and every row without a 24h change comes after every row that has one.
C6_GainsOrder ==
    (Dispatched /\ last.data = <<"gains">> /\ last.calls = 0) =>
        \A i, j \in 1..Len(Shown) :
            i < j =>
                LET a == Shown[i].price_change_percentage_24h
                    b == Shown[j].price_change_percentage_24h
                IN  /\ (a # None /\ b # None) => a[1] >= b[1]
                    /\ a = None => b = None

\* C7: every dispatched button identifier takes exactly one branch: the
\* first message it tries to show is the view of its identifier (or, for a
\* data view whose fetch raised, the warning notice), and whatever it tries
\* to show after that is a warning notice; an identifier outside the seven
\* known ones is answered "Unknown command: <identifier>" with the home
\* keyboard, without an upstream call and with the cache left as it was.
IsNotice(call) == call.text.title # <<>> /\ call.text.title[1] = Glyph

C7_Totality ==
    [][ (now' = now /\ last'.kind = "button" /\ last'.acked) =>
          LET first == last'.sent[2] IN
          /\ Len(last'.sent) >= 2
          /\ first.op = "edit_message_text"
          /\ \A i \in 3..Len(last'.sent) : IsNotice(last'.sent[i])
          /\ CASE last'.data \in {<<"price">>, <<"refresh">>} ->
                      IsNotice(first) \/ (first.text.title = PriceTitle /\ first.kb = main_kb)
               [] last'.data = <<"mc">> ->
                      IsNotice(first) \/ (first.text.title = McTitle /\ first.kb = main_kb)
               [] last'.data = <<"gains">> ->
                      IsNotice(first) \/ (first.text.title = GainsTitle /\ first.kb = main_kb)
               [] last'.data = <<"charts">> -> first.text.title = ChartsTitle /\ first.kb = charts_kb
               [] last'.data = <<"back">> -> first.text.title = BackTitle /\ first.kb = main_kb
               [] last'.data = <<"helpbtn">> -> first.text.title = HelpBtnTitle /\ first.kb = main_kb
               [] OTHER ->
                      /\ first.text = Text(<<"Unknown", "command:">> \o last'.data, <<>>)
                      /\ first.kb = <<"price", "refresh", "mc", "gains", "charts", "helpbtn">>
                      /\ last'.calls = 0
                      /\ cache' = cache /\ cache_time' = cache_time
      ]_vars

C7_Witness ==
    /\ Dispatched /\ last.raw = Some(<<" ", "xyz", " ">>) /\ last.data = <<"xyz">>
    /\ last.sent[2].ok /\ last.sent[2].text.title = <<"Unknown", "command:", "xyz">>
    /\ "markets" \in DOMAIN cache

\* C8 as stated: every command's reply carries the home keyboard.
C8_HomeKeyboard ==
    (last.kind = "command" /\ last.sent[1].ok) =>
        last.sent[1].kb = <<"price", "refresh", "mc", "gains", "charts", "helpbtn">>

\* C8 as amended: the start command replies with a message that carries the
\* home keyboard; the help command and every other command reply with the
\* help text and no keyboard.
C8_StartKeyboard ==
    last.kind = "command" =>
        /\ Len(last.sent) = 1 /\ last.sent[1].op = "reply_text"
        /\ IF last.data = <<"start">>
           THEN /\ last.sent[1].text.title = StartTitle
                /\ last.sent[1].kb = <<"price", "refresh", "mc", "gains", "charts", "helpbtn">>
           ELSE /\ last.sent[1].text.title = HelpTitle
                /\ last.sent[1].kb = <<>>

C8_Witness ==
    last.kind = "command" /\ last.data = <<"start">> /\ last.sent[1].ok /\ last.sent[1].kb # <<>>

\* C9: the rows of the market-cap view are the fetched rows in non-increasing
\* order of market cap, an absent market cap counting as 0.
Cap(row) == IF row.market_cap = None THEN 0 ELSE row.market_cap[1]

Occurrences(rows, q) == Cardinality({i \in 1..Len(rows) : rows[i] = q})

C9_McOrder ==
    (Dispatched /\ last.data = <<"mc">> /\ last.calls = 0) =>
        /\ \A i, j \in 1..Len(Shown) : i < j => Cap(Shown[i]) >= Cap(Shown[j])
        /\ Len(Shown) = Len(fetched.payload)
        /\ \A q \in ViewQuotes : Occurrences(Shown, q) = Occurrences(fetched.payload, q)

C9_Witness ==
    /\ Dispatched /\ last.data = <<"mc">> /\ last.calls = 0
    /\ Shown # fetched.payload
    /\ \E i, j \in 1..Len(Shown) :
           i < j /\ Shown[i].market_cap = Some(1) /\ Shown[j].market_cap = None

\* C10: the cached payload is the body of the latest successful upstream
\* fetch, in upstream order, stamped with the time of that fetch, whatever
\* views were rendered since; a price view served from the cache lists the
\* rows in upstream order.
C10_ViewsKeepCache ==
    /\ fetched.present <=> "markets" \in DOMAIN cache
    /\ DOMAIN cache_time = DOMAIN cache
    /\ fetched.present =>
           /\ cache["markets"] = fetched.payload
           /\ cache_time["markets"] = fetched.at
    /\ (DataRequest /\ last.data \in {<<"price">>, <<"refresh">>} /\ last.calls = 0) =>
           Shown = fetched.payload

C10_Witness ==
    /\ DataRequest /\ last.data = <<"mc">> /\ last.calls = 0
    /\ Shown # fetched.payload
    /\ cache["markets"] = fetched.payload
    /\ last.at > fetched.at

====
